---- MODULE Spec2Model ----
(***************************************************************************)
(* chartly: the Multiplots composer (overlay / new_subplot / __call__ /    *)
(* clear_axis) and its subplot tiling function, src/chartly/chartly.py,    *)
(* the older copy of the composer in src/src/plotting/plotting.py, whose   *)
(* charts are methods of the composer itself, and the option dicts and     *)
(* data checks of the charts.                                              *)
(*                                                                         *)
(* The composer is single-threaded and synchronous: every method runs to   *)
(* completion, so each method is one action.  What a call did to the       *)
(* figure (grid, axes created, instructions drawn, exception raised) is    *)
(* kept in `out`, the observable effect of the most recent call.           *)
(***************************************************************************)
EXTENDS Integers, Sequences, FiniteSets, TLC

VARIABLES
    init_args,        \* the args dict the composer was constructed from
    share_axes,       \* Multiplots.share_axes
    subplot_count,    \* Multiplots.subplot_count
    subplots,         \* Multiplots.subplots: list of buckets
    current_subplot,  \* Multiplots.current_subplot: the unsealed bucket
    out,              \* what the most recent call did (figure, exception)
    hist,             \* the calls made since construction, while short
    calls,            \* new_subplot calls since construction / last clear_axis
    prev,             \* buckets and grid of a first run's figure
    num,              \* argument of a direct tiling(num) call
    shape,            \* its result, <<>> before the call
    impl,             \* the copy the objects are built from
    plot_args,        \* the option dicts given to Plot.__init__, by field
    options,          \* the option dicts of the Plot object, by field
    chart,            \* a chart called on its own: its kind and its data
    verdict           \* what the call of chart did, NotCalled before it

vars == <<init_args, share_axes, subplot_count, subplots, current_subplot, out, hist,
          calls, prev, num, shape, impl, plot_args, options, chart, verdict>>

\* the variables of the Plot object's options, and of a chart called alone
plotvars == <<impl, plot_args, options>>
chartvars == <<chart, verdict>>

----------------------------------------------------------------------------
(* Bounds of the model. *)

\* most instructions held by the composer (all buckets and the current one)
MaxInstr == 3
\* most buckets sealed into subplots before a render flushes one more
MaxSubplots == 2
\* cap of subplot_count
MaxCount == 5
\* calls remembered in hist
MaxHist == 5
\* largest argument of a direct tiling call
MaxNum == 64
\* most elements in the data list of a chart called on its own
MaxData == 3
\* longest sequence, most rows of an array, among those elements
MaxLen == 3

----------------------------------------------------------------------------
(* Values. *)

\* a key the caller left out of a dict
NoKey == "<absent>"

\* the empty dict {}
EmptyDict == "{}"

\* the overlay_args dicts callers pass, by name
ArgNames == {"A", "B", "C", "Bad"}

\* the keys tracked in an axes_labels dict and in a chart's style dict
LabelKeys == {"title", "show_legend"}
StyleKeys == {"color", "linestyle"}

\* an axes_labels dict that has the key "title" only, {} when title is NoKey
titled(title) == [title |-> title, show_legend |-> NoKey]

\* d.update(e) with the new values coming second, where it should be first
update_keeps_old(d, e) == [k \in DOMAIN d |-> IF d[k] # NoKey THEN d[k] ELSE e[k]]

\* d.update(e) and {**d, **e}: the keys of e take e's values
update(d, e) == [k \in DOMAIN d |-> IF e[k] # NoKey THEN e[k] ELSE d[k]]

overlay_args(name) ==
    CASE name = "A"   -> [plot |-> "line_plot", data |-> "y",
                          axes_labels |-> titled("A"), customs |-> NoKey]
      [] name = "B"   -> [plot |-> "cdf", data |-> "y",
                          axes_labels |-> titled(NoKey), customs |-> NoKey]
      [] name = "C"   -> [plot |-> "histogram", data |-> "y",
                          axes_labels |-> titled("C"), customs |-> EmptyDict]
      [] name = "Bad" -> [plot |-> "contour", data |-> "XY",
                          axes_labels |-> titled("Bad"), customs |-> NoKey]
      [] name = "U"   -> [plot |-> "pie", data |-> "y",
                          axes_labels |-> titled("U"), customs |-> NoKey]
      [] name = "P"   -> [plot |-> "prob_plot", data |-> "y",
                          axes_labels |-> titled(NoKey), customs |-> NoKey]

\* the keys of Multiplots.graphs
graphs == {"cdf", "density", "histogram", "boxplot", "probability_plot",
           "line_plot", "contour", "normal_cdf"}

\* data values: "y" a list of five numbers, "XY" a list of two 2-D arrays,
\* "XYZ" a list of three 2-D arrays.  len(data):
DataLen(data) ==
    CASE data \in {"y", "sorted(y)"} -> 5
      [] data = "XY" -> 2
      [] data = "XYZ" -> 3

\* the elements of a data list, by what the checks look at: a number, a
\* sequence of n numbers, a 2-D array of n rows
number == [ndim |-> 0, len |-> 0]
sequence(n) == [ndim |-> 1, len |-> n]
array2d(n) == [ndim |-> 2, len |-> n]

\* the data values as lists of such elements
Elements(data) ==
    CASE data \in {"y", "sorted(y)"} ->
             <<number, number, number, number, number>>
      [] data = "XY" -> <<array2d(2), array2d(2)>>
      [] data = "XYZ" -> <<array2d(2), array2d(2), array2d(2)>>

\* the numbers of a list of numbers, in the list's order: "y" is the list
\* the caller made, "sorted(y)" the same list object after list.sort()
Numbers(data) ==
    CASE data = "y" -> <<3, 1, 2, 5, 4>>
      [] data = "sorted(y)" -> <<1, 2, 3, 4, 5>>

\* s, a list in ascending order, with x put in its place
RECURSIVE Insert(_, _)
Insert(x, s) ==
    IF s = <<>> THEN <<x>>
    ELSE IF x <= Head(s) THEN <<x>> \o s
    ELSE <<Head(s)>> \o Insert(x, Tail(s))

\* the numbers of s in ascending order
RECURSIVE Ascending(_)
Ascending(s) == IF s = <<>> THEN <<>> ELSE Insert(Head(s), Ascending(Tail(s)))

\* sample_data.sort(): the list after it was sorted in place
list_sort(data) ==
    CHOOSE d \in {"y", "sorted(y)"} : Numbers(d) = Ascending(Numbers(data))

\* the dataset of an instruction once its chart has run: the probability
\* plot sorts self.data, which is the instruction's own list; the other
\* charts read it
data_after(instr) ==
    IF instr[1] = "prob_plot" THEN list_sort(instr[2]) ELSE instr[2]

\* the instruction overlay() stores: [plot, data, axes_labels, customs]
Instruction(args) ==
    <<args.plot, args.data, args.axes_labels,
      IF args.customs = NoKey THEN EmptyDict ELSE args.customs>>

\* what out holds after a call that touched no figure
NoFigure ==
    [raised |-> "none", at |-> "-", grid |-> <<>>, laid |-> <<>>,
     axes |-> <<>>, drawn |-> <<>>, shown |-> FALSE]

\* prev while no first run is kept
NoRun == [buckets |-> 0, grid |-> <<>>]

\* hist once more than MaxHist calls were made
Overflow == <<[op |-> "...", arg |-> "-"]>>

\* hist after one more call
Logged(op, arg) ==
    IF hist = Overflow \/ Len(hist) >= MaxHist
    THEN Overflow
    ELSE Append(hist, [op |-> op, arg |-> arg])

\* the last element of a non-empty list
Last(seq) == seq[Len(seq)]

\* the instructions of a list of buckets, in order
RECURSIVE Flat(_)
Flat(bs) == IF bs = <<>> THEN <<>> ELSE Head(bs) \o Flat(Tail(bs))

RECURSIVE SumLen(_)
SumLen(bs) == IF bs = <<>> THEN 0 ELSE Len(Head(bs)) + SumLen(Tail(bs))

\* instructions the composer holds
Held == SumLen(subplots) + Len(current_subplot)

----------------------------------------------------------------------------
(* Multiplots.tiling *)

\* math.isqrt: the integer part of the square root
isqrt(n) == CHOOSE r \in 0..n : r * r <= n /\ (r + 1) * (r + 1) > n

\* tiling with the single-row case one count too wide
tiling_single_row_to_5(n) ==
    IF n <= 5
    THEN <<1, n>>
    ELSE LET root == isqrt(n)
         IN  IF n = root * root
             THEN <<root, root>>
             ELSE LET col == root + 1
                      del_row == (col * col - n) \div col
                      row == col - del_row
                  IN  <<row, col>>

\* tiling with the spare rows rounded up instead of down
tiling_del_row_rounded_up(n) ==
    IF n < 5
    THEN <<1, n>>
    ELSE LET root == isqrt(n)
         IN  IF n = root * root
             THEN <<root, root>>
             ELSE LET col == root + 1
                      del_row == (col * col - n + col - 1) \div col
                      row == col - del_row
                  IN  <<row, col>>

\* tiling with one column too many
tiling_extra_column(n) ==
    IF n < 5
    THEN <<1, n>>
    ELSE LET root == isqrt(n)
         IN  IF n = root * root
             THEN <<root, root>>
             ELSE LET col == root + 2
                      del_row == (col * col - n) \div col
                      row == col - del_row
                  IN  <<row, col>>

\* tiling that takes the root itself for the number of columns
tiling_root_columns(n) ==
    IF n < 5
    THEN <<1, n>>
    ELSE LET root == isqrt(n)
         IN  IF n = root * root
             THEN <<root, root>>
             ELSE LET col == root
                      del_row == (col * col - n) \div col
                      row == col - del_row
                  IN  <<row, col>>

tiling(n) ==
    IF n < 5
    THEN <<1, n>>
    ELSE LET root == isqrt(n)
         IN  IF n = root * root
             THEN <<root, root>>
             ELSE LET col == root + 1
                      del_row == (col * col - n) \div col
                      row == col - del_row
                  IN  <<row, col>>

----------------------------------------------------------------------------
(* Plot: the option dicts (src/src/plotting/plotting.py) *)

\* the fields whose dicts are tracked
Fields == {"axes_labels", "gen_plot", "histogram"}

\* the keys of the dict update_defaults looks the field up in
update_fields == {"axes_labels", "export", "cdf", "density", "histogram",
                  "timeseries", "boxplots", "prob_plot", "gen_plot",
                  "norm_cdf", "contour"}

\* the keys tracked in the dict of a field
KeysOf(field) == IF field = "axes_labels" THEN LabelKeys ELSE StyleKeys

\* the empty dict of a field
NoValues(field) == [k \in KeysOf(field) |-> NoKey]

\* Plot.set_defaults: a new dict at every call
set_defaults(field) ==
    CASE field = "axes_labels" -> [title |-> " ", show_legend |-> "True"]
      [] field = "gen_plot" -> [color |-> "navy", linestyle |-> "solid"]
      [] field = "histogram" -> [color |-> "plum", linestyle |-> NoKey]

\* the args of a caller who supplies no option dict
NoArgs == [f \in Fields |-> NoValues(f)]

\* Plot.__init__: {**self.set_defaults(field), **args.get(field, {})}
InitPlot(args) ==
    /\ plot_args = args
    /\ options = [f \in Fields |-> update(set_defaults(f), args[f])]

\* no chart is called on its own
NotCalled == [raised |-> "-", plotted |-> FALSE]
NoChart == [plot |-> "-", data |-> <<>>]

----------------------------------------------------------------------------
(* Multiplots.__init__ *)

\* the args dicts given to the constructor: keys holds the keys present
ConstructorArgs ==
    {[keys |-> {}, share_axes |-> FALSE],
     [keys |-> {"share_axes"}, share_axes |-> TRUE],
     [keys |-> {"share_axes"}, share_axes |-> FALSE]}

\* the constructor with args.get("share_axes", False)
InitComposer_shares_on_request(args) ==
    /\ init_args = args
    /\ share_axes = IF "share_axes" \in args.keys THEN args.share_axes ELSE FALSE
    /\ subplot_count = 0
    /\ subplots = <<>>
    /\ current_subplot = <<>>
    /\ out = NoFigure
    /\ hist = <<>>
    /\ calls = 0

\* args.get("share_axes", True)
InitComposer(args) ==
    /\ init_args = args
    /\ share_axes = IF "share_axes" \in args.keys THEN args.share_axes ELSE TRUE
    /\ subplot_count = 0
    /\ subplots = <<>>
    /\ current_subplot = <<>>
    /\ out = NoFigure
    /\ hist = <<>>
    /\ calls = 0

\* what the composer's state machine leaves alone
InitRest ==
    /\ prev = NoRun
    /\ num = 0
    /\ shape = <<>>
    /\ InitPlot(NoArgs)
    /\ chart = NoChart
    /\ verdict = NotCalled

Init ==
    /\ \E args \in ConstructorArgs : InitComposer(args)
    /\ impl = "chartly"
    /\ InitRest

\* the composer of src/src/plotting/plotting.py
InitPlotting ==
    /\ \E args \in ConstructorArgs : InitComposer(args)
    /\ impl = "plotting"
    /\ InitRest

----------------------------------------------------------------------------
(* Multiplots.overlay *)

\* overlay that looks the plot name up before it stores the instruction, and
\* refuses a name that is no key of graphs
overlay_validates(name) ==
    /\ Held < MaxInstr
    /\ IF overlay_args(name).plot \in graphs
       THEN /\ current_subplot' = Append(current_subplot, Instruction(overlay_args(name)))
            /\ out' = NoFigure
       ELSE /\ current_subplot' = current_subplot
            /\ out' = [NoFigure EXCEPT !.raised = "KeyError", !.at = "overlay"]
    /\ hist' = Logged("overlay", name)
    /\ UNCHANGED <<init_args, share_axes, subplot_count, subplots, calls, prev, num, shape, plotvars, chartvars>>

\* overlay(overlay_args(name)): four dict lookups and one append, nothing is
\* looked at and nothing is raised
overlay_of(name) ==
    /\ Held < MaxInstr
    /\ current_subplot' = Append(current_subplot, Instruction(overlay_args(name)))
    /\ out' = NoFigure
    /\ hist' = Logged("overlay", name)
    /\ UNCHANGED <<init_args, share_axes, subplot_count, subplots, calls, prev, num, shape, plotvars, chartvars>>

\* overlay that counts the bucket it starts
overlay_counts_bucket ==
    \E name \in ArgNames :
        /\ Held < MaxInstr
        /\ current_subplot' = Append(current_subplot, Instruction(overlay_args(name)))
        /\ subplot_count' = IF current_subplot = <<>>
                            THEN subplot_count + 1
                            ELSE subplot_count
        /\ out' = NoFigure
        /\ hist' = Logged("overlay", name)
        /\ UNCHANGED <<init_args, share_axes, subplots, calls, prev, num, shape, plotvars, chartvars>>

overlay == \E name \in ArgNames : overlay_of(name)

(* Multiplots.new_subplot *)

\* new_subplot that counts only the buckets it seals
new_subplot_counts_sealed ==
    /\ subplot_count < MaxCount
    /\ calls < MaxCount
    /\ Len(current_subplot) > 0 => Len(subplots) < MaxSubplots
    /\ subplot_count' = IF Len(current_subplot) > 0
                        THEN subplot_count + 1
                        ELSE subplot_count
    /\ subplots' = IF Len(current_subplot) > 0
                   THEN Append(subplots, current_subplot)
                   ELSE subplots
    /\ current_subplot' = <<>>
    /\ calls' = calls + 1
    /\ out' = NoFigure
    /\ hist' = Logged("new_subplot", "-")
    /\ UNCHANGED <<init_args, share_axes, prev, num, shape, plotvars, chartvars>>

\* new_subplot that seals the current bucket even when it is empty
new_subplot_seals_empty ==
    /\ subplot_count < MaxCount
    /\ Len(subplots) < MaxSubplots
    /\ subplot_count' = subplot_count + 1
    /\ subplots' = Append(subplots, current_subplot)
    /\ current_subplot' = <<>>
    /\ calls' = calls + 1
    /\ out' = NoFigure
    /\ hist' = Logged("new_subplot", "-")
    /\ UNCHANGED <<init_args, share_axes, prev, num, shape, plotvars, chartvars>>

\* new_subplot that puts the sealed bucket in front of the earlier ones
new_subplot_seals_in_front ==
    /\ subplot_count < MaxCount
    /\ Len(current_subplot) > 0 => Len(subplots) < MaxSubplots
    /\ subplot_count' = subplot_count + 1
    /\ subplots' = IF Len(current_subplot) > 0
                   THEN <<current_subplot>> \o subplots
                   ELSE subplots
    /\ current_subplot' = <<>>
    /\ calls' = calls + 1
    /\ out' = NoFigure
    /\ hist' = Logged("new_subplot", "-")
    /\ UNCHANGED <<init_args, share_axes, prev, num, shape, plotvars, chartvars>>

new_subplot ==
    /\ subplot_count < MaxCount
    /\ Len(current_subplot) > 0 => Len(subplots) < MaxSubplots
    /\ subplot_count' = subplot_count + 1
    /\ subplots' = IF Len(current_subplot) > 0
                   THEN Append(subplots, current_subplot)
                   ELSE subplots
    /\ current_subplot' = <<>>
    /\ calls' = calls + 1
    /\ out' = NoFigure
    /\ hist' = Logged("new_subplot", "-")
    /\ UNCHANGED <<init_args, share_axes, prev, num, shape, plotvars, chartvars>>

(* Multiplots.clear_axis *)

\* clear_axis that also drops the unsealed bucket
clear_axis_drops_current ==
    /\ subplot_count' = 0
    /\ subplots' = <<>>
    /\ current_subplot' = <<>>
    /\ calls' = 0
    /\ out' = NoFigure
    /\ hist' = Logged("clear_axis", "-")
    /\ UNCHANGED <<init_args, share_axes, prev, num, shape, plotvars, chartvars>>

\* clear_axis that resets the count and keeps the buckets
clear_axis_keeps_buckets ==
    /\ subplot_count' = 0
    /\ calls' = 0
    /\ out' = NoFigure
    /\ hist' = Logged("clear_axis", "-")
    /\ UNCHANGED <<init_args, share_axes, subplots, current_subplot, prev, num, shape, plotvars, chartvars>>

clear_axis ==
    /\ subplot_count' = 0
    /\ subplots' = <<>>
    /\ calls' = 0
    /\ out' = NoFigure
    /\ hist' = Logged("clear_axis", "-")
    /\ UNCHANGED <<init_args, share_axes, current_subplot, prev, num, shape, plotvars, chartvars>>

----------------------------------------------------------------------------
(* Multiplots.__call__ *)

\* Figure.add_subplot(rows, cols, num) of matplotlib raises ValueError unless
\* rows and cols are positive and 1 <= num <= rows * cols
add_subplot_raises(rows, cols, n) ==
    ~(rows >= 1 /\ cols >= 1 /\ 1 <= n /\ n <= rows * cols)

\* LinePlot.__call__ with only the first of its two checks
LinePlot_checks_count_only(d) ==
    IF d[1].ndim >= 1
    THEN IF Len(d) # 2 THEN "AssertionError" ELSE "none"
    ELSE "none"

\* LinePlot.__call__ and Plot.generic_plot on a non-empty data list: the
\* exception raised, "none" when the line is drawn.  d[1] is self.data[0]
LinePlot_raises(d) ==
    IF d[1].ndim >= 1
    THEN IF Len(d) # 2 THEN "AssertionError"
         ELSE IF d[1].len # d[2].len THEN "AssertionError"
         ELSE "none"
    ELSE "none"

\* Contour.__call__ and Plot.plot_contour_plot: the two checks, then
\* matplotlib's own refusal of arrays of different shapes
Contour_raises(d) ==
    IF Len(d) # 3 THEN "AssertionError"
    ELSE IF \E i \in 1..3 : d[i].ndim # 2 THEN "AssertionError"
    ELSE IF d[1].len # d[2].len \/ d[2].len # d[3].len THEN "TypeError"
    ELSE "none"

\* the exception raised by the chart `plot` called on data d
chart_raises(plot, d) ==
    IF plot \in {"line_plot", "gen_plot"} THEN LinePlot_raises(d)
    ELSE IF plot = "contour" THEN Contour_raises(d)
    ELSE "none"

\* the exception raised by self.graphs[plot_name](payload) followed by plot(),
\* "none" when the instruction is drawn
plot_raises(instr) ==
    IF instr[1] \notin graphs THEN "KeyError"
    ELSE chart_raises(instr[1], Elements(instr[2]))

\* the keys of Multiplots.graphs in src/src/plotting/plotting.py
graphs_plotting == {"cdf", "density", "histogram", "timeseries", "boxplots",
                    "prob_plot", "gen_plot", "contour"}

\* the charts that switch the legend off before they label the axes
no_legend == {"boxplot", "boxplots", "histogram", "contour"}

\* the axes_labels the chart `plot` passes on to label_axes
labelled(plot, labels) ==
    IF plot \in no_legend THEN [labels EXCEPT !.show_legend = "False"]
    ELSE labels

\* plotting.py: the composer's own axes_labels while the figure is built
labels_now(fig) ==
    IF fig.drawn = <<>> THEN options["axes_labels"] ELSE Last(fig.drawn).labels

\* the axis of the first bucket, ax1, where the bucket's own is meant
first_ax(fig) == fig.axes[1].position

\* the loop's local ax, the axis add_subplot made for the bucket at hand:
\* chartly.py stores it in Plot._ax, plotting.py in self.ax
current_ax(fig) == Last(fig.axes).position

\* chartly.py, plot.ax = self.ax: the ax property of the base class Plot
\* gives the composer the axis stored in Plot._ax
self_ax(class_ax) == class_ax

\* one pass of the loop body for one overlay: the exception and where it was
\* raised, and the axes_labels in force.  chartly.py builds a chart from the
\* payload (defaults overridden by the instruction's axes_labels);
\* plotting.py updates the composer's own dicts, outside the try, and calls
\* its own method (customs are {} in every instruction: that update changes
\* nothing, but raises when plot_name is no field)
draw(instr, fig) ==
    IF impl = "plotting"
    THEN LET lab == update(labels_now(fig), instr[3])
         IN  IF instr[1] \notin update_fields
             THEN [raised |-> "KeyError", at |-> "update_defaults",
                   labels |-> lab, ax |-> current_ax(fig)]
             ELSE IF instr[1] \notin graphs_plotting
             THEN [raised |-> "KeyError", at |-> "plot", labels |-> lab,
                   ax |-> current_ax(fig)]
             ELSE IF chart_raises(instr[1], Elements(instr[2])) # "none"
             THEN [raised |-> chart_raises(instr[1], Elements(instr[2])),
                   at |-> "plot", labels |-> lab, ax |-> current_ax(fig)]
             ELSE [raised |-> "none", at |-> "-",
                   labels |-> labelled(instr[1], lab), ax |-> current_ax(fig)]
    ELSE LET lab == update(set_defaults("axes_labels"), instr[3])
         IN  IF plot_raises(instr) # "none"
             THEN [raised |-> plot_raises(instr), at |-> "plot", labels |-> lab,
                   ax |-> self_ax(current_ax(fig))]
             ELSE [raised |-> "none", at |-> "-",
                   labels |-> labelled(instr[1], lab),
                   ax |-> self_ax(current_ax(fig))]

\* the loop over the overlays with the exception swallowed
RECURSIVE draw_overlays_swallow(_, _, _, _)
draw_overlays_swallow(subplot, idx, k, fig) ==
    IF k > Len(subplot) THEN fig
    ELSE LET d == draw(subplot[k], fig)
         IN  IF d.raised # "none"
             THEN draw_overlays_swallow(subplot, idx, k + 1, fig)
             ELSE draw_overlays_swallow(subplot, idx, k + 1,
                      [fig EXCEPT !.drawn = Append(@, [bucket |-> idx - 1,
                                                       instr |-> subplot[k],
                                                       labels |-> d.labels,
                                                       ax |-> d.ax,
                                                       data |-> data_after(subplot[k])])])

\* the loop over the overlays starting at the second one
RECURSIVE draw_overlays_from_second(_, _, _, _)
draw_overlays_from_second(subplot, idx, k, fig) ==
    IF k > Len(subplot) THEN fig
    ELSE IF k = 1 THEN draw_overlays_from_second(subplot, idx, 2, fig)
    ELSE LET d == draw(subplot[k], fig)
         IN  IF d.raised # "none"
             THEN [fig EXCEPT !.raised = d.raised, !.at = d.at]
             ELSE draw_overlays_from_second(subplot, idx, k + 1,
                      [fig EXCEPT !.drawn = Append(@, [bucket |-> idx - 1,
                                                       instr |-> subplot[k],
                                                       labels |-> d.labels,
                                                       ax |-> d.ax,
                                                       data |-> data_after(subplot[k])])])

\* the loop over the overlays of bucket idx (1-based), from overlay k on
RECURSIVE draw_overlays(_, _, _, _)
draw_overlays(subplot, idx, k, fig) ==
    IF k > Len(subplot) THEN fig
    ELSE LET d == draw(subplot[k], fig)
         IN  IF d.raised # "none"
             THEN [fig EXCEPT !.raised = d.raised, !.at = d.at]
             ELSE draw_overlays(subplot, idx, k + 1,
                      [fig EXCEPT !.drawn = Append(@, [bucket |-> idx - 1,
                                                       instr |-> subplot[k],
                                                       labels |-> d.labels,
                                                       ax |-> d.ax,
                                                       data |-> data_after(subplot[k])])])

\* the loop over the buckets, from bucket idx (1-based) on: idx - 1 is the
\* code's 0-based idx, so the position asked of add_subplot is idx
RECURSIVE add_subplots(_, _, _, _, _)
add_subplots(buckets, rows, cols, idx, fig) ==
    IF idx > Len(buckets) THEN fig
    ELSE IF add_subplot_raises(rows, cols, idx)
    THEN [fig EXCEPT !.raised = "ValueError", !.at = "add_subplot"]
    ELSE LET ax == [position |-> idx - 1,
                    sharey |-> IF idx - 1 = 0 THEN FALSE ELSE share_axes]
             f1 == draw_overlays(buckets[idx], idx, 1,
                                 [fig EXCEPT !.axes = Append(@, ax)])
         IN  IF f1.raised # "none" THEN f1
             ELSE add_subplots(buckets, rows, cols, idx + 1, f1)

\* the count handed to tiling if the flush counted the bucket it appends
grid_count_with_flush == subplot_count + 1

\* the count handed to tiling: the flush leaves subplot_count alone
grid_count == subplot_count

\* the figure with the super titles and the display in a finally clause
figure_shown_whatever_happens ==
    LET buckets == Append(subplots, current_subplot)
        grid == tiling(grid_count)
        f == add_subplots(buckets, grid[1], grid[2], 1,
                          [NoFigure EXCEPT !.grid = grid, !.laid = buckets])
    IN  [f EXCEPT !.shown = TRUE]

\* the figure built by a call: flush, tiling, the two loops, the super titles
figure ==
    LET buckets == Append(subplots, current_subplot)
        grid == tiling(grid_count)
        f == add_subplots(buckets, grid[1], grid[2], 1,
                          [NoFigure EXCEPT !.grid = grid, !.laid = buckets])
    IN  [f EXCEPT !.shown = (f.raised = "none")]

\* plotting.py: the composer's axes_labels when the call is over, the
\* update made for a failing overlay included
labels_left(fig) ==
    IF fig.at \in {"update_defaults", "plot"}
    THEN update(labels_now(fig), Flat(fig.laid)[Len(fig.drawn) + 1][3])
    ELSE labels_now(fig)

\* the buckets as the call leaves them when it does not reset: the lists
\* that were laid out, the datasets of the instructions drawn as the charts
\* left them
retained(fig) ==
    [b \in 1..Len(fig.laid) |->
        [k \in 1..Len(fig.laid[b]) |->
            IF SumLen(SubSeq(fig.laid, 1, b - 1)) + k <= Len(fig.drawn)
            THEN [fig.laid[b][k] EXCEPT ![2] = data_after(fig.laid[b][k])]
            ELSE fig.laid[b][k]]]

\* clear_axis run only at the end of a call that drew everything
resets_on_success_only(fig) == fig.raised = "none"

\* whether the call runs clear_axis: in the except clause around the chart,
\* or at its end; add_subplot and update_defaults are outside the try
resets(fig) == fig.at \notin {"add_subplot", "update_defaults"}

render ==
    /\ Len(subplots) <= MaxSubplots
    /\ out' = figure
    /\ current_subplot' = <<>>
    /\ IF resets(figure)
       THEN /\ subplots' = <<>>
            /\ subplot_count' = 0
            /\ calls' = 0
       ELSE /\ subplots' = retained(figure)
            /\ UNCHANGED <<subplot_count, calls>>
    /\ options' = IF impl = "plotting"
                  THEN [options EXCEPT !["axes_labels"] = labels_left(figure)]
                  ELSE options
    /\ hist' = Logged("render", "-")
    /\ UNCHANGED <<init_args, share_axes, prev, num, shape, impl, plot_args, chartvars>>

Next == overlay \/ new_subplot \/ render \/ clear_axis

Spec == Init /\ [][Next]_vars

\* the same calls on the composer of src/src/plotting/plotting.py
SpecPlotting == InitPlotting /\ [][Next]_vars

----------------------------------------------------------------------------
(* Composing only: the states reached by overlay and new_subplot calls. *)

NextCompose == overlay \/ new_subplot

SpecCompose == Init /\ [][NextCompose]_vars

----------------------------------------------------------------------------
(* Instructions that cannot be drawn: a plot name that is no key of       *)
(* graphs and a contour with two arrays, next to a line that can.         *)

UncheckedNames == {"A", "U", "Bad"}

overlay_unchecked == \E name \in UncheckedNames : overlay_of(name)

NextUnchecked == overlay_unchecked \/ new_subplot \/ render

SpecUnchecked == Init /\ [][NextUnchecked]_vars

----------------------------------------------------------------------------
(* The calls with every render one that gets all its surfaces: it         *)
(* completes, or it fails inside the draw of an instruction.              *)

render_drawn ==
    /\ figure.at # "add_subplot"
    /\ render

NextDrawn == overlay \/ new_subplot \/ clear_axis \/ render_drawn

SpecDrawn == Init /\ [][NextDrawn]_vars

----------------------------------------------------------------------------
(* The usage of the Multiplots docstrings: every subplot is opened by     *)
(* new_subplot() and gets at least one overlay before the next            *)
(* new_subplot() or the call that builds the figure.  calls counts the    *)
(* subplots opened since the last reset.                                   *)

new_subplot_usage ==
    /\ calls = 0 \/ current_subplot # <<>>
    /\ new_subplot

overlay_usage ==
    /\ calls >= 1
    /\ overlay

render_usage ==
    /\ calls >= 1
    /\ current_subplot # <<>>
    /\ render

NextUsage == new_subplot_usage \/ overlay_usage \/ render_usage

SpecUsage == Init /\ [][NextUsage]_vars

----------------------------------------------------------------------------
(* The composer of plotting.py with a probability plot among its         *)
(* instructions: next to it a cdf, and a line_plot, which that copy does  *)
(* not know and which stops the call outside the try block.               *)

SortingNames == {"P", "B", "A"}

overlay_sorting == \E name \in SortingNames : overlay_of(name)

NextSorting == overlay_sorting \/ new_subplot \/ render

SpecSorting == InitPlotting /\ [][NextSorting]_vars

----------------------------------------------------------------------------
(* Two runs side by side: the figure of a first run is kept in prev, a    *)
(* composer is constructed anew from the same args, and the second run's figure is compared  *)
(* with the first's.                                                      *)

second_run ==
    /\ prev = NoRun
    /\ out.laid # <<>>
    /\ prev' = [buckets |-> Len(out.laid), grid |-> out.grid]
    /\ subplot_count' = 0
    /\ subplots' = <<>>
    /\ current_subplot' = <<>>
    /\ out' = NoFigure
    /\ hist' = <<>>
    /\ calls' = 0
    /\ UNCHANGED <<init_args, share_axes, num, shape, plotvars, chartvars>>

NextPair == Next \/ second_run

SpecPair == Init /\ [][NextPair]_vars

----------------------------------------------------------------------------
(* Direct calls of tiling(num). *)

InitTiling ==
    /\ InitComposer([keys |-> {}, share_axes |-> FALSE])
    /\ prev = NoRun
    /\ num \in 0..MaxNum
    /\ shape = <<>>
    /\ impl = "chartly"
    /\ InitPlot(NoArgs)
    /\ chart = NoChart
    /\ verdict = NotCalled

call_tiling ==
    /\ shape = <<>>
    /\ shape' = tiling(num)
    /\ UNCHANGED <<init_args, share_axes, subplot_count, subplots, current_subplot, out,
                   hist, calls, prev, num, plotvars, chartvars>>

next_call ==
    /\ shape # <<>>
    /\ num' \in 0..MaxNum
    /\ shape' = <<>>
    /\ UNCHANGED <<init_args, share_axes, subplot_count, subplots, current_subplot, out,
                   hist, calls, prev, plotvars, chartvars>>

NextTiling == call_tiling \/ next_call

SpecTiling == InitTiling /\ [][NextTiling]_vars

----------------------------------------------------------------------------
(* A chart called on its own, on a data list that is not empty and is     *)
(* either a list of numbers (1-D) or a list of sequences and 2-D arrays.  *)

ChartKinds == {"line_plot", "contour"}

\* sequences of at least two numbers, arrays of at least two rows
Arrays == {sequence(n) : n \in 2..MaxLen} \cup {array2d(n) : n \in 2..MaxLen}

DataLists ==
    UNION {[1..n -> {number}] \cup [1..n -> Arrays] : n \in 1..MaxData}

InitChart ==
    /\ InitComposer([keys |-> {}, share_axes |-> FALSE])
    /\ impl = "chartly"
    /\ prev = NoRun
    /\ num = 0
    /\ shape = <<>>
    /\ InitPlot(NoArgs)
    /\ chart \in [plot : ChartKinds, data : DataLists]
    /\ verdict = NotCalled

\* plot = LinePlot(args) or Contour(args), then plot()
call_chart ==
    /\ verdict = NotCalled
    /\ verdict' = [raised |-> chart_raises(chart.plot, chart.data),
                   plotted |-> chart_raises(chart.plot, chart.data) = "none"]
    /\ UNCHANGED <<init_args, share_axes, subplot_count, subplots, current_subplot, out,
                   hist, calls, prev, num, shape, plotvars, chart>>

next_chart ==
    /\ verdict # NotCalled
    /\ chart' \in [plot : ChartKinds, data : DataLists]
    /\ verdict' = NotCalled
    /\ UNCHANGED <<init_args, share_axes, subplot_count, subplots, current_subplot, out,
                   hist, calls, prev, num, shape, plotvars>>

NextChart == call_chart \/ next_chart

SpecChart == InitChart /\ [][NextChart]_vars

----------------------------------------------------------------------------
(* A Plot object of src/src/plotting/plotting.py and its option dicts. *)

\* the values callers give
Titles == {"T"}
Colors == {"pink", "blue"}

\* the dicts callers give for a field
Dicts(field) ==
    IF field = "axes_labels"
    THEN [title : {NoKey} \cup Titles, show_legend : {NoKey, "False"}]
    ELSE [color : {NoKey} \cup Colors, linestyle : {NoKey, "dashed"}]

\* Plot(args)
InitOptions ==
    /\ InitComposer([keys |-> {}, share_axes |-> FALSE])
    /\ impl = "plotting"
    /\ prev = NoRun
    /\ num = 0
    /\ shape = <<>>
    /\ \E args \in [Fields -> UNION {Dicts(f) : f \in Fields}] :
           /\ \A f \in Fields : args[f] \in Dicts(f)
           /\ InitPlot(args)
    /\ chart = NoChart
    /\ verdict = NotCalled

\* Plot.update_defaults: defaults[field].update(new_values)
update_defaults(field, new_values) ==
    /\ options' = [options EXCEPT ![field] = update(@, new_values)]
    /\ UNCHANGED <<init_args, share_axes, subplot_count, subplots, current_subplot, out,
                   hist, calls, prev, num, shape, impl, plot_args, chartvars>>

NextOptions ==
    \E field \in Fields : \E new_values \in Dicts(field) :
        update_defaults(field, new_values)

SpecOptions == InitOptions /\ [][NextOptions]_vars

----------------------------------------------------------------------------
(* Properties. *)

\* hist entries
Ov(name) == [op |-> "overlay", arg |-> name]
Ns == [op |-> "new_subplot", arg |-> "-"]
Rn == [op |-> "render", arg |-> "-"]

\* the instruction stored for overlay_args `name`
I(name) == Instruction(overlay_args(name))

\* a render was the most recent call
Rendered == out.laid # <<>>

\* the instructions the most recent call drew, each with its bucket's index
DrawnAt ==
    [i \in 1..Len(out.drawn) |->
        [bucket |-> out.drawn[i].bucket, instr |-> out.drawn[i].instr]]

\* the largest r with r * r <= count
FloorSqrt(count) ==
    LET S == {r \in 0..count : r * r <= count}
    IN  CHOOSE r \in S : \A q \in S : q <= r

\* the reference planner of the specification
Plan(count) ==
    IF count < 5 THEN <<1, count>>
    ELSE LET root == FloorSqrt(count)
             cols == root + 1
         IN  IF root * root = count THEN <<root, root>>
             ELSE <<cols - ((cols * cols - count) \div cols), cols>>

\* C1: tiling(count) equals the reference planner for every count >= 0:
\* (1, count) below 5, (root, root) on perfect squares, otherwise
\* (cols - floor((cols*cols - count) / cols), cols) with cols = root + 1;
\* tiling(5) = (2,3), tiling(9) = (3,3), tiling(10) = (3,4), tiling(16) = (4,4).
C1_TilingIsPlan ==
    shape # <<>> =>
        /\ shape = Plan(num)
        /\ num = 5 => shape = <<2, 3>>
        /\ num = 9 => shape = <<3, 3>>
        /\ num = 10 => shape = <<3, 4>>
        /\ num = 16 => shape = <<4, 4>>

C1_Witness == num = 16 /\ shape = <<4, 4>>

\* C2: the grid tiling(count) has at least count cells: rows * cols >= count.
C2_CapacityHoldsCount == shape # <<>> => shape[1] * shape[2] >= num

C2_Witness == num = 7 /\ shape = <<3, 3>>

\* C3 as stated: among all shapes (r, c) with r * c >= count the returned
\* shape minimizes cols - rows.
C3_MinimalAmongAllShapes ==
    shape # <<>> =>
        \A r \in 1..(MaxNum + 1), c \in 1..(MaxNum + 1) :
            r * c >= num => shape[2] - shape[1] <= c - r

\* a shape no taller than wide that holds count cells and has no unused row
Tight(r, c, count) == r <= c /\ r * c >= count /\ (r - 1) * c < count

\* C3 amended: for count >= 5 the returned shape is no taller than wide,
\* holds count cells and has no wholly unused row, and among all such shapes
\* it minimizes cols - rows.
C3_MinimalAmongTightShapes ==
    (shape # <<>> /\ num >= 5) =>
        /\ Tight(shape[1], shape[2], num)
        /\ \A r \in 1..num, c \in 1..num :
               Tight(r, c, num) => shape[2] - shape[1] <= c - r

C3_Witness == num = 5 /\ shape = <<2, 3>>

\* C4: whenever render lays out its buckets, the grid it computed has at
\* least as many cells as there are buckets: rows * cols >= len(subplots).
C4_GridHoldsBuckets ==
    Rendered => out.grid[1] * out.grid[2] >= Len(out.laid)

\* C5: overlay(A); new_subplot(); overlay(B); overlay(C); render() produces
\* exactly the buckets [A] and [B, C], drawn in that order onto positions 0
\* and 1 of a (1, 2) grid.
C5_TwoBucketsOnOneByTwo ==
    hist = <<Ov("A"), Ns, Ov("B"), Ov("C"), Rn>> =>
        /\ out.laid = <<<<I("A")>>, <<I("B"), I("C")>>>>
        /\ out.grid = <<1, 2>>
        /\ out.raised = "none"
        /\ DrawnAt = <<[bucket |-> 0, instr |-> I("A")],
                         [bucket |-> 1, instr |-> I("B")],
                         [bucket |-> 1, instr |-> I("C")]>>

\* C6: the grid used by render depends only on the number of buckets: two
\* runs that reach render with the same number of buckets get the same grid.
C6_GridFromBucketCount ==
    (Rendered /\ prev # NoRun /\ Len(out.laid) = prev.buckets) =>
        out.grid = prev.grid

\* C7: render computes its grid as tiling(subplot_count) with the value
\* subplot_count holds when render is called: the flush does not change it.
C7_GridFromCountAtCall ==
    [][out'.laid # <<>> => out'.grid = tiling(subplot_count)]_vars

C7_Witness == Rendered /\ Len(out.laid) = 2 /\ out.grid = <<1, 2>>

\* C8 as stated: in every state reached by overlay and new_subplot calls,
\* subplot_count = number of sealed buckets + 1 if the current bucket is
\* non-empty.
C8_CountIsSealedPlusPending ==
    subplot_count = Len(subplots) + (IF current_subplot # <<>> THEN 1 ELSE 0)

\* C8 amended: in every state reached by overlay and new_subplot calls,
\* subplot_count equals the number of new_subplot calls made; it is at least
\* the number of sealed buckets and does not count the unsealed bucket.
C8_CountIsNewSubplotCalls ==
    /\ subplot_count = calls
    /\ Len(subplots) <= subplot_count

C8_Witness ==
    subplot_count = 2 /\ subplots = <<>> /\ current_subplot = <<I("A")>>

\* C9 as stated: after new_subplot(); new_subplot(); overlay(X) on a fresh
\* composer subplot_count is 3 when render is called.
C9_CountReachesThree ==
    \A x \in ArgNames : hist = <<Ns, Ns, Ov(x)>> => subplot_count = 3

\* C9 amended: after new_subplot(); new_subplot(); overlay(X) on a fresh
\* composer subplot_count is 2 when render is called.
C9_CountReachesTwo ==
    \A x \in ArgNames : hist = <<Ns, Ns, Ov(x)>> => subplot_count = 2

C9_Witness == hist = <<Ns, Ns, Ov("B")>>

\* C10: subplot_count is 0 on a fresh composer, every new_subplot call
\* increments it by exactly 1 whether or not the current bucket is empty, and
\* between resets it equals the number of new_subplot calls made since
\* construction or the last reset.
C10_CountsEveryNewSubplot ==
    /\ subplot_count = 0
    /\ [](subplot_count = calls)
    /\ [][calls' = calls + 1 => subplot_count' = subplot_count + 1]_vars

C10_Witness ==
    hist = <<Ns, Ov("A"), Ns>> /\ subplot_count = 2 /\ Len(subplots) = 1

\* hist entry of a clear_axis call
Ca == [op |-> "clear_axis", arg |-> "-"]

\* C11: new_subplot seals only non-empty buckets: a non-empty current bucket
\* becomes the last element of subplots and current becomes empty; with an
\* empty current bucket subplots is unchanged and current stays empty.  Hence
\* new_subplot(); new_subplot(); overlay(X); render() renders exactly one
\* bucket, [X].
C11_SealsOnlyNonEmpty ==
    /\ [][calls' = calls + 1 =>
            /\ current_subplot' = <<>>
            /\ subplots' = IF current_subplot # <<>>
                           THEN Append(subplots, current_subplot)
                           ELSE subplots]_vars
    /\ [](\A x \in ArgNames :
            hist = <<Ns, Ns, Ov(x), Rn>> =>
                /\ out.laid = <<<<I(x)>>>>
                /\ Len(out.drawn) <= 1
                /\ plot_raises(I(x)) = "none" =>
                       DrawnAt = <<[bucket |-> 0, instr |-> I(x)]>>)

C11_Witness ==
    /\ hist = <<Ns, Ns, Ov("A"), Rn>>
    /\ out.laid = <<<<I("A")>>>>
    /\ Len(out.drawn) = 1

\* C12: clear_axis, called in any state, sets subplot_count to 0 and subplots
\* to the empty list and changes nothing else: the unsealed current bucket
\* keeps its overlays, which the next new_subplot or render flushes.
C12_ClearAxisFrame ==
    /\ [][clear_axis =>
            /\ subplot_count' = 0
            /\ subplots' = <<>>
            /\ current_subplot' = current_subplot
            /\ share_axes' = share_axes]_vars
    /\ [](hist = <<Ov("A"), Ns, Ov("B"), Ca, Ns>> => subplots = <<<<I("B")>>>>)
    /\ [](hist = <<Ov("A"), Ns, Ov("B"), Ca, Rn>> => out.laid = <<<<I("B")>>>>)

C12_Witness ==
    /\ hist = <<Ov("A"), Ns, Ov("B"), Ca>>
    /\ subplot_count = 0
    /\ subplots = <<>>
    /\ current_subplot = <<I("B")>>

\* C13: every render call, whether it returns or raises for any reason,
\* leaves subplot_count = 0 and subplots = [].
C13_RenderAlwaysResets ==
    Rendered => (subplot_count = 0 /\ subplots = <<>>)

\* the options Plot.__init__ gives a new object
FreshOptions == [f \in Fields |-> update(set_defaults(f), plot_args[f])]

BucketOf(bs, j) ==
    CHOOSE b \in 1..Len(bs) :
        /\ SumLen(SubSeq(bs, 1, b - 1)) < j
        /\ j <= SumLen(SubSeq(bs, 1, b))

\* the instructions of the most recent figure that cannot be drawn
Failing == {j \in 1..Len(Flat(out.laid)) : plot_raises(Flat(out.laid)[j]) # "none"}

\* the first of them
FirstFailing == CHOOSE j \in Failing : \A i \in Failing : j <= i

\* render got as far as drawing an instruction that fails: there is one, and
\* its bucket has its surface
ReachedFailing ==
    /\ Rendered
    /\ Failing # {}
    /\ BucketOf(out.laid, FirstFailing) <= Len(out.axes)

\* C15: if drawing an instruction fails during render, render is aborted at
\* that instruction: its exception is raised to the caller, the instructions
\* drawn are exactly those before it (none after it, none twice), no surface
\* is created after its bucket's, and the figure is not shown.
C15_DrawFailureAborts ==
    ReachedFailing =>
        /\ out.at = "plot"
        /\ out.raised = plot_raises(Flat(out.laid)[FirstFailing])
        /\ DrawnAt = [i \in 1..(FirstFailing - 1) |->
                        [bucket |-> BucketOf(out.laid, i) - 1,
                         instr |-> Flat(out.laid)[i]]]
        /\ Len(out.axes) = BucketOf(out.laid, FirstFailing)
        /\ ~out.shown

C15_Witness ==
    /\ ReachedFailing
    /\ out.raised = "AssertionError"
    /\ Len(out.drawn) = 1
    /\ Len(Flat(out.laid)) = 3
    /\ Len(out.laid) = 2
    /\ Len(out.axes) = 1

\* C16: render always flushes the current bucket, even an empty one, and
\* leaves current_subplot empty, so a render right after new_subplot or on a
\* fresh composer lays out one empty bucket more, which gets its own surface.
C16_FlushedBucketGetsSurface ==
    Rendered =>
        /\ current_subplot = <<>>
        /\ (Last(out.laid) = <<>> /\ out.at # "plot") =>
               Len(out.axes) = Len(out.laid)

\* C17: a 2-D line plot is rejected with an error, and no line drawn, unless
\* its data is exactly two sequences of equal length, while 1-D data and
\* well-formed 2-D data are drawn without error; a contour plot is rejected
\* with an error unless its data is exactly three datasets, each 2-D.
C17_DataShapeChecks ==
    verdict # NotCalled =>
        LET d == chart.data
            two_d == d[1].ndim >= 1
            paired == Len(d) = 2 /\ d[1].len = d[2].len
            three_2d == Len(d) = 3 /\ \A i \in 1..Len(d) : d[i].ndim = 2
        IN  /\ (chart.plot = "line_plot" /\ two_d /\ ~paired) =>
                   (verdict.raised # "none" /\ ~verdict.plotted)
            /\ (chart.plot = "line_plot" /\ (~two_d \/ paired)) =>
                   (verdict.raised = "none" /\ verdict.plotted)
            /\ (chart.plot = "contour" /\ ~three_2d) =>
                   (verdict.raised # "none" /\ ~verdict.plotted)

C17_Witness ==
    /\ chart = [plot |-> "line_plot", data |-> <<sequence(3), sequence(2)>>]
    /\ verdict = [raised |-> "AssertionError", plotted |-> FALSE]

\* C18: when render reaches a contour instruction with two datasets instead
\* of three, it raises the shape error, and afterwards the composer holds
\* nothing of the failed call: every render lays out exactly the buckets
\* held when it is called, so a new overlay / new_subplot / render sequence
\* renders only the new instructions.
C18_ContourFailureResets ==
    /\ [](( /\ ReachedFailing
            /\ Flat(out.laid)[FirstFailing][1] = "contour"
            /\ Len(Elements(Flat(out.laid)[FirstFailing][2])) = 2 ) =>
              /\ out.raised = "AssertionError"
              /\ subplot_count = 0
              /\ subplots = <<>>
              /\ current_subplot = <<>>)
    /\ [][out'.laid # <<>> => out'.laid = Append(subplots, current_subplot)]_vars
    /\ [](hist = <<Ns, Ov("Bad"), Rn, Ns, Ov("A")>> =>
              /\ figure.laid = <<<<I("A")>>>>
              /\ figure.raised = "none"
              /\ Len(figure.drawn) = 1)

C18_Witness ==
    /\ hist = <<Ns, Ov("Bad"), Rn, Ns, Ov("A")>>
    /\ subplots = <<>>
    /\ current_subplot = <<I("A")>>
    /\ subplot_count = 1

\* C19: the effective options of a chart are its defaults overridden key by
\* key by the options the caller supplies, and update_defaults(field,
\* new_values) changes exactly the keys of new_values in that one field.
C19_OptionsOverrideDefaults ==
    /\ \A f \in Fields : \A k \in KeysOf(f) :
           options[f][k] = IF plot_args[f][k] # NoKey
                           THEN plot_args[f][k]
                           ELSE set_defaults(f)[k]
    /\ [][\A f \in Fields : \A nv \in Dicts(f) :
            update_defaults(f, nv) =>
                \A g \in Fields : \A k \in KeysOf(g) :
                    options'[g][k] = IF g = f /\ nv[k] # NoKey
                                     THEN nv[k]
                                     ELSE options[g][k]]_vars

C19_Witness ==
    /\ plot_args["gen_plot"] = [color |-> "pink", linestyle |-> NoKey]
    /\ options["gen_plot"] = [color |-> "blue", linestyle |-> "solid"]
    /\ options["histogram"] = set_defaults("histogram")

\* C20: in a render that completes every instruction of every bucket is
\* drawn exactly once, the buckets in the order they were sealed (bucket i
\* on the surface at position i) and each bucket's instructions in overlay
\* order.
C20_DrawnInOrder ==
    (Rendered /\ out.raised = "none") =>
        /\ DrawnAt = [i \in 1..Len(Flat(out.laid)) |->
                        [bucket |-> BucketOf(out.laid, i) - 1,
                         instr |-> Flat(out.laid)[i]]]
        /\ Len(out.axes) = Len(out.laid)
        /\ \A b \in 1..Len(out.axes) : out.axes[b].position = b - 1

C20_Witness ==
    /\ Rendered
    /\ out.raised = "none"
    /\ Len(out.laid) = 2
    /\ Len(out.laid[2]) = 2
    /\ Len(out.drawn) = 3

SharingAsked ==
    IF "share_axes" \in init_args.keys THEN init_args.share_axes ELSE TRUE

\* C22: in render the surface of bucket 0 never shares an axis with another
\* surface, and the surface of every bucket i > 0 shares its y axis with the
\* surface of bucket 0 if and only if share_axes is enabled, which it is by
\* default when the constructor's args omit it.
C22_SharesValueAxis ==
    Rendered =>
        \A b \in 1..Len(out.axes) :
            out.axes[b].sharey = (b > 1 /\ SharingAsked)

C22_Witness ==
    /\ Rendered
    /\ "share_axes" \notin init_args.keys
    /\ Len(out.axes) = 2
    /\ ~out.axes[1].sharey
    /\ out.axes[2].sharey

\* C23: the overall title and super-labels are applied and the display is
\* requested once per render, only after the last instruction of the last
\* bucket has been drawn; when a draw fails (or any other step of the call)
\* they are not applied and no display is requested.
C23_ShownAfterLastDraw ==
    Rendered =>
        /\ out.shown <=> out.raised = "none"
        /\ out.shown =>
               /\ Len(out.axes) = Len(out.laid)
               /\ Len(out.drawn) = Len(Flat(out.laid))
        /\ out.at = "plot" => ~out.shown

C23_Witness ==
    /\ Rendered
    /\ out.shown
    /\ Len(out.laid) = 2
    /\ Len(out.drawn) = 3

\* C24: overlay appends exactly one instruction (plot name, data, axes
\* labels, customs) at the end of the current bucket and changes neither
\* subplot_count nor subplots; it checks nothing and raises nothing, so an
\* instruction with an unregistered plot name or with malformed data is
\* stored like any other, and the failure comes only in render, raised by the
\* draw of that instruction.
C24_OverlayStoresUnchecked ==
    /\ [][(hist' # hist /\ Last(hist').op = "overlay") =>
            /\ current_subplot' = Append(current_subplot, I(Last(hist').arg))
            /\ subplot_count' = subplot_count
            /\ subplots' = subplots
            /\ out'.raised = "none"]_vars
    /\ [](ReachedFailing =>
            /\ out.raised = plot_raises(Flat(out.laid)[FirstFailing])
            /\ out.at = "plot")

C24_Witness ==
    /\ hist = <<Ns, Ov("U"), Ov("Bad"), Rn>>
    /\ out.laid = <<(<<I("U"), I("Bad")>>)>>
    /\ out.raised = "KeyError"
    /\ out.at = "plot"

\* C25: once a bucket is in subplots, put there by new_subplot or by the
\* flush at the start of render, no later overlay or new_subplot call changes
\* its contents or its position: the list before the call is the beginning
\* of the list after it, and an overlay leaves subplots alone and extends
\* only the current bucket.
C25_SealedBucketsKept ==
    [][(hist' # hist /\ Last(hist').op \in {"overlay", "new_subplot"}) =>
          /\ Len(subplots') >= Len(subplots)
          /\ SubSeq(subplots', 1, Len(subplots)) = subplots
          /\ Last(hist').op = "overlay" =>
                 /\ subplots' = subplots
                 /\ Len(current_subplot') = Len(current_subplot) + 1]_vars

C25_Witness ==
    /\ hist = <<Ov("A"), Rn, Ov("B"), Ns>>
    /\ subplots = <<(<<I("A")>>), (<<I("B")>>)>>
    /\ current_subplot = <<>>

\* C26: an instruction is immutable once appended: drawing it leaves its
\* dataset, the order of the elements included, as overlay stored it, and the
\* instructions the composer holds between calls are the ones overlay stored.
C26_InstructionsImmutable ==
    /\ Rendered => \A i \in 1..Len(out.drawn) :
            out.drawn[i].data = out.drawn[i].instr[2]
    /\ \A j \in 1..Len(Flat(subplots)) :
            \E name \in SortingNames : Flat(subplots)[j] = I(name)

\* C27: for every count of at least 5, tiling(count) = (rows, cols) is a
\* square or has one column more than rows, has at least one row, and its last
\* row is in use: (rows - 1) * cols < count <= rows * cols.
C27_NearSquareLastRowUsed ==
    (shape # <<>> /\ num >= 5) =>
        /\ shape[2] - shape[1] \in {0, 1}
        /\ shape[1] >= 1
        /\ (shape[1] - 1) * shape[2] < num
        /\ num <= shape[1] * shape[2]

C27_Witness == num = 10 /\ shape = <<3, 4>>

\* C28: between the calls of any sequence of overlay, new_subplot and
\* clear_axis calls and of renders that complete or fail inside a draw,
\* subplots holds at most subplot_count buckets and none of them is empty;
\* so the next render lays out at most subplot_count + 1 buckets.
C28_SealedWithinCount ==
    /\ 0 <= Len(subplots)
    /\ Len(subplots) <= subplot_count
    /\ \A b \in 1..Len(subplots) : subplots[b] # <<>>
    /\ Len(figure.laid) <= subplot_count + 1

C28_Witness ==
    /\ hist = <<Ns, Ov("Bad"), Rn, Ov("A"), Ns>>
    /\ subplots = <<(<<I("A")>>)>>
    /\ subplot_count = 1
    /\ Len(figure.laid) = 2

\* C29: under the documented usage (every subplot opened by new_subplot and
\* given at least one overlay before the next new_subplot or render), render
\* lays out exactly subplot_count buckets, none of them empty, and every
\* bucket's position lies inside the grid tiling(subplot_count): no
\* add_subplot call is refused.
C29_UsageFillsGrid ==
    [][out'.laid # <<>> =>
          /\ Len(out'.laid) = subplot_count
          /\ \A b \in 1..Len(out'.laid) : out'.laid[b] # <<>>
          /\ out'.grid = tiling(subplot_count)
          /\ \A b \in 1..Len(out'.laid) :
                 ~add_subplot_raises(out'.grid[1], out'.grid[2], b)
          /\ out'.at # "add_subplot"]_vars

C29_Witness ==
    /\ hist = <<Ns, Ov("A"), Ns, Ov("B"), Rn>>
    /\ out.laid = <<(<<I("A")>>), (<<I("B")>>)>>
    /\ out.grid = <<1, 2>>
    /\ Len(out.axes) = 2
    /\ out.raised = "none"

\* C30: each instruction is drawn with labels computed only from the chart's
\* defaults and the instruction's own axes_labels (and the legend its own
\* chart switches off): nothing set for or by an earlier instruction, of the
\* same render or of an earlier one, carries over.
C30_LabelsFromOwnInstruction ==
    Rendered => \A i \in 1..Len(out.drawn) :
        out.drawn[i].labels =
            labelled(out.drawn[i].instr[1],
                     update(set_defaults("axes_labels"), out.drawn[i].instr[3]))

====
